---- MODULE Spec2Model ----
(***************************************************************************)
(* Model of igrf_model: the coefficient resolver                           *)
(* (IGRFModel._get_coeffs_for_year), the one-shot and the date-bound        *)
(* evaluators (IGRFModel.evaluate, DateBoundIGRFModel) and the control      *)
(* structure of the synthesis (igrf13syn_with_precalculated_coeffs).        *)
(*                                                                         *)
(* Numbers.  A date is an integer count of 1/DateScale years.  The          *)
(* resolver's weights t and tc are kept as numerators over the common       *)
(* denominator WDen = 5 * DateScale, and a resolved coefficient is kept as  *)
(* the numerator of tc*current + t*next over WDen, so all of the resolver   *)
(* is exact integer arithmetic.  The table holds integers.                  *)
(***************************************************************************)
EXTENDS Integers, Sequences, FiniteSets, TLC

\* ------------------------------------------------------------------------
\* Bounds of the model
\* ------------------------------------------------------------------------
DateScale == 2
MaxCalls == 2
MaxGets == 3
NumThreads == 2

\* ------------------------------------------------------------------------
\* Program constants
\* ------------------------------------------------------------------------
min_year == 1900
max_year == 2030
DegreeSwitchYear == 1995
LowDegree == 10
HighDegree == 13
NumLowBlocks == 19
LowBlockLen == 120
HighBlockLen == 195
NumHighBlocks == 7
ExtrapolationSpan == 10
SnapshotStep == 5
MetersPerKm == 1000

GEODETIC == 1
GEOCENTRIC == 2

\* Python's None, as an entry of g or h, and a number entry.
None == [isNone |-> TRUE, val |-> 0]
Num(v) == [isNone |-> FALSE, val |-> v]

\* A date given in whole years, in date units.
Y(year) == year * DateScale

\* Common denominator of the weights t and tc.
WDen == SnapshotStep * DateScale

\* ------------------------------------------------------------------------
\* The coefficient table (IGRFModel._table)
\* ------------------------------------------------------------------------
\* from_io: 19 blocks of 120 values, then the full rows of the later
\* columns, then one sentinel.
TableLen == NumLowBlocks * LowBlockLen + NumHighBlocks * HighBlockLen + 1

TableKinds == {1, 2}

\* The value stored at position i (0 <= i < TableLen).  The contents are an
\* input of the program; two different contents are modelled.  The last
\* entry is the sentinel 0 that from_io appends.
TableAt(kind, i) ==
    IF i = TableLen - 1 THEN 0
    ELSE IF kind = 1 THEN i + 1
    ELSE ((i * 37) % 101) - 50

\* Where the block of the snapshot number i (0 for min_year, one every five
\* years) begins in the table that from_io builds.
SnapshotStart(i) ==
    IF i <= NumLowBlocks
    THEN LowBlockLen * i
    ELSE NumLowBlocks * LowBlockLen + HighBlockLen * (i - NumLowBlocks)

\* Python list indexing: a negative index counts from the end.
PyIndex(i) == IF i < 0 THEN TableLen + i ELSE i

IndexOk(i) == PyIndex(i) >= 0 /\ PyIndex(i) < TableLen

TableGet(kind, i) == TableAt(kind, PyIndex(i))

\* Python's int() on the quotient a/b of two integers, b > 0: truncation
\* towards zero.
PyInt(a, b) == IF a >= 0 THEN a \div b ELSE -((-a) \div b)

\* ------------------------------------------------------------------------
\* IGRFModel._get_coeffs_for_year
\* ------------------------------------------------------------------------
\* Variant: the bounds taken as exclusive.
OutOfRange_Exclusive(date) == date <= Y(min_year) \/ date >= Y(max_year)

OutOfRange(date) == date < Y(min_year) \/ date > Y(max_year)

date_threshold == Y(max_year - ExtrapolationSpan)

Nmx(date) == IF date < Y(DegreeSwitchYear) THEN LowDegree ELSE HighDegree

\* Variant: the number of values per block miscounted.
Nc_Short(date) == Nmx(date) * (Nmx(date) + 1)

Nc(date) == Nmx(date) * (Nmx(date) + 2)

Extrapolating(date) == date >= date_threshold

\* Variant: the extrapolation branch counts the blocks up to the date
\* instead of up to date_threshold.
BlockOffset_FromDate(date) ==
    IF Extrapolating(date)
    THEN NumLowBlocks * LowBlockLen
         + Nc(date) * PyInt(date - Y(DegreeSwitchYear), WDen)
    ELSE IF date < Y(DegreeSwitchYear)
         THEN Nc(date) * PyInt(date - Y(min_year), WDen)
         ELSE NumLowBlocks * LowBlockLen
              + Nc(date) * PyInt(date - Y(DegreeSwitchYear), WDen)

\* ll after lines 141-162: the block offset.
BlockOffset(date) ==
    IF Extrapolating(date)
    THEN NumLowBlocks * LowBlockLen
         + Nc(date) * PyInt(date_threshold - Y(DegreeSwitchYear), WDen)
    ELSE IF date < Y(DegreeSwitchYear)
         THEN Nc(date) * PyInt(date - Y(min_year), WDen)
         ELSE NumLowBlocks * LowBlockLen
              + Nc(date) * PyInt(date - Y(DegreeSwitchYear), WDen)

\* Variant: the whole steps ll not subtracted from t.
WeightT_Whole(date) ==
    IF Extrapolating(date)
    THEN SnapshotStep * (date - date_threshold)
    ELSE date - Y(min_year)

\* t, as a numerator over WDen.
WeightT(date) ==
    IF Extrapolating(date)
    THEN SnapshotStep * (date - date_threshold)
    ELSE (date - Y(min_year)) - WDen * PyInt(date - Y(min_year), WDen)

\* tc, as a numerator over WDen.
WeightTc(date) ==
    IF Extrapolating(date) THEN WDen ELSE WDen - WeightT(date)

\* temp before the loop (line 167).
WalkStart(date) == BlockOffset(date) - 1

\* tc * table[cur] + t * table[cur + nc], as a numerator over WDen.
Blend(kind, date, cur) ==
    WeightTc(date) * TableGet(kind, cur)
    + WeightT(date) * TableGet(kind, cur + Nc(date))

Operand(arr, n, m, cur, date) ==
    [arr |-> arr, n |-> n, m |-> m, cur |-> cur, nxt |-> cur + Nc(date)]

\* The entry of g or h that the code computes from the operand pair op:
\* g[0] already holds None when its order-0 value is appended.
EntryOf(c, op) ==
    IF op.arr = "g"
    THEN c.g[op.n + 1][IF op.n = 0 THEN op.m + 2 ELSE op.m + 1]
    ELSE c.h[op.n + 1][op.m + 1]

\* The walk state w holds the loop variables n and m, the rows of g and h
\* built so far, the operands read so far, and temp.

\* The inner loop (lines 173-181) of degree w.n, from order w.m on.
RECURSIVE WalkOrders(_, _, _)
WalkOrders(kind, date, w) ==
    IF w.m > w.n THEN w
    ELSE IF w.m # 0
    THEN WalkOrders(kind, date,
           [w EXCEPT
              !.g[w.n + 1] = Append(@, Num(Blend(kind, date, w.temp))),
              !.h[w.n + 1] = Append(@, Num(Blend(kind, date, w.temp + 1))),
              !.ops = @ \o <<Operand("g", w.n, w.m, w.temp, date),
                             Operand("h", w.n, w.m, w.temp + 1, date)>>,
              !.temp = @ + 2,
              !.m = @ + 1])
    ELSE WalkOrders(kind, date,
           [w EXCEPT
              !.g[w.n + 1] = Append(@, Num(Blend(kind, date, w.temp))),
              !.h[w.n + 1] = Append(@, None),
              !.ops = @ \o <<Operand("g", w.n, w.m, w.temp, date)>>,
              !.temp = @ + 1,
              !.m = @ + 1])

\* The outer loop (lines 168-172), from degree w.n on.
RECURSIVE WalkDegrees(_, _, _)
WalkDegrees(kind, date, w) ==
    IF w.n > Nmx(date) THEN w
    ELSE WalkDegrees(kind, date,
           [WalkOrders(kind, date,
              [w EXCEPT
                 !.g = Append(@, IF w.n = 0 THEN <<None>> ELSE <<>>),
                 !.h = Append(@, <<>>),
                 !.m = 0])
            EXCEPT !.n = @ + 1])

\* The table indices read, in the order the code reads them: for each
\* coefficient table[cur], then table[cur + nc].
ReadsOf(ops) ==
    [r \in 1..(2 * Len(ops)) |->
        IF r % 2 = 1 THEN ops[(r + 1) \div 2].cur ELSE ops[r \div 2].nxt]

\* The whole method.  outcome is "ok", "ValueError" (lines 130-133) or
\* "IndexError" (a table index outside the list).  Besides the returned g
\* and h the result records the locals nmx, nc, ll, t and tc and the
\* operands read (zero and empty when the range check raises).
GetCoeffsForYear(kind, date) ==
    IF OutOfRange(date)
    THEN [outcome |-> "ValueError", g |-> <<>>, h |-> <<>>, ops |-> <<>>,
          nmx |-> 0, nc |-> 0, ll |-> 0, t |-> 0, tc |-> 0]
    ELSE LET w == WalkDegrees(kind, date,
                    [n |-> 0, m |-> 0, g |-> <<>>, h |-> <<>>,
                     ops |-> <<>>, temp |-> WalkStart(date)])
         IN IF \A i \in 1..Len(w.ops) :
                   IndexOk(w.ops[i].cur) /\ IndexOk(w.ops[i].nxt)
            THEN [outcome |-> "ok", g |-> w.g, h |-> w.h, ops |-> w.ops,
                  nmx |-> Nmx(date), nc |-> Nc(date),
                  ll |-> BlockOffset(date),
                  t |-> WeightT(date), tc |-> WeightTc(date)]
            ELSE [outcome |-> "IndexError", g |-> <<>>, h |-> <<>>,
                  ops |-> w.ops,
                  nmx |-> Nmx(date), nc |-> Nc(date),
                  ll |-> BlockOffset(date),
                  t |-> WeightT(date), tc |-> WeightTc(date)]

\* ------------------------------------------------------------------------
\* utils.parse_datetime_or_fractional_year, on a fractional year
\* ------------------------------------------------------------------------
\* A number is returned as it is (neither isinstance branch applies).
ParseDatetimeOrFractionalYear(input) == input

\* ------------------------------------------------------------------------
\* _igrf13syn.igrf13syn_with_precalculated_coeffs
\* ------------------------------------------------------------------------
\* The floating-point values of the synthesis are not computed; the model
\* keeps what decides the control flow (the sign of st, the loop counters
\* and the array slots) and the coefficients each node uses.

\* Signs (-1, 0, 1) of sin and cos of radians(colat) in double precision,
\* for colat in 0..180: sin(radians(0)) is 0.0, sin(radians(180)) is
\* 1.2246e-16, cos(radians(90)) is 6.1232e-17.
SinAndCosSign(colat) ==
    [s |-> IF colat = 0 THEN 0 ELSE 1,
     c |-> IF colat <= 90 THEN 1 ELSE -1]

\* Sign of a + b from the signs of a and b; 2 when the signs do not decide.
SgnAdd(a, b) ==
    IF a = 0 THEN b ELSE IF b = 0 THEN a ELSE IF a = b THEN a ELSE 2

\* Sign of st after lines 142-165.  In the geodetic branch cd is positive,
\* sd has the sign of ct*st, and st becomes st*cd + ct*sd.
StSign(itype, lat) ==
    LET sc == SinAndCosSign(90 - lat)
        cd == 1
        sd == sc.c * sc.s
    IN IF itype = GEODETIC
       THEN SgnAdd(sc.s * cd, sc.c * sd)
       ELSE sc.s

\* Sign of r at line 167 (ratio = 6371.2 / r), for alt >= 0: in the
\* geodetic branch r is the square root of a positive sum, in the
\* geocentric branch r is alt itself.
RSign(itype, alt) ==
    IF itype = GEODETIC THEN 1
    ELSE IF alt[1] = 0 THEN 0 ELSE 1

\* The term added to y at a node (lines 203-214): none for m = 0, the pole
\* formula (g*sl - h*cl)*q[k]*ct when st == 0, else the quotient
\* (g*sl - h*cl)*m*p[k]/st.
YTerm(m, stSign) ==
    IF m = 0 THEN "none" ELSE IF stSign = 0 THEN "pole" ELSE "div"

\* p, q = [0.0] * 105 and cl, sl = [0.0] * 13: the lengths of the work
\* arrays, and the slots assigned before the loop (p[0], p[2], q[0], q[2];
\* sl[0], cl[0]).
PQLen == 105
CLLen == 13
SeededPQ == {0, 2}
SeededCL == {0}

\* Variant: j = i - n in the off-diagonal case.
SynthesisStep_ShiftedJ(coeffs, stSign, a) ==
    LET k == a.k
        wrap == a.n < a.m
        m == IF wrap THEN 0 ELSE a.m
        n == IF wrap THEN a.n + 1 ELSE a.n
        i == IF m # n THEN k - n ELSE a.i
        j == IF m # n THEN (k - n) - n
             ELSE IF k # 2 THEN k - n - 1 ELSE a.j
        node == [k |-> k, n |-> n, m |-> m,
                 rec |-> IF m # n THEN "offdiag"
                         ELSE IF k # 2 THEN "diag" ELSE "seed",
                 i |-> i, j |-> j,
                 two |-> IF m # n THEN (n - 1) * (n - 1) - m * m ELSE -1,
                 pRead |-> IF m # n THEN {i, j}
                           ELSE IF k # 2 THEN {j} ELSE {},
                 pWrite |-> IF m # n \/ k # 2 THEN {k} ELSE {},
                 clRead |-> IF m = n /\ k # 2 THEN {m - 2, 0} ELSE {},
                 clWrite |-> IF m = n /\ k # 2 THEN {m - 1} ELSE {},
                 pUse |-> {k},
                 clUse |-> IF m = 0 THEN {} ELSE {m - 1},
                 g |-> coeffs.g[n + 1][m + 1],
                 h |-> IF m = 0 THEN None ELSE coeffs.h[n + 1][m + 1],
                 y |-> YTerm(m, stSign),
                 divByZero |-> YTerm(m, stSign) = "div" /\ stSign = 0]
    IN [k |-> k + 1, n |-> n, m |-> m + 1, i |-> i, j |-> j,
        nodes |-> Append(a.nodes, node)]

\* One pass of the loop body (lines 179-216); a is the loop state: the
\* index k, n, m, the last assigned i and j, and the nodes processed so far.
\* A node records the slots of p and q (pRead, pWrite) and of cl and sl
\* (clRead, clWrite) that the recurrence reads and assigns, the slots the
\* accumulation into x, y, z reads (pUse, clUse), and the radicand two of
\* the weight of p[j], (n-1)^2 - m^2, in the off-diagonal case.
SynthesisStep(coeffs, stSign, a) ==
    LET k == a.k
        wrap == a.n < a.m
        m == IF wrap THEN 0 ELSE a.m
        n == IF wrap THEN a.n + 1 ELSE a.n
        i == IF m # n THEN k - n ELSE a.i
        j == IF m # n THEN (k - n) - n + 1
             ELSE IF k # 2 THEN k - n - 1 ELSE a.j
        node == [k |-> k, n |-> n, m |-> m,
                 rec |-> IF m # n THEN "offdiag"
                         ELSE IF k # 2 THEN "diag" ELSE "seed",
                 i |-> i, j |-> j,
                 two |-> IF m # n THEN (n - 1) * (n - 1) - m * m ELSE -1,
                 pRead |-> IF m # n THEN {i, j}
                           ELSE IF k # 2 THEN {j} ELSE {},
                 pWrite |-> IF m # n \/ k # 2 THEN {k} ELSE {},
                 clRead |-> IF m = n /\ k # 2 THEN {m - 2, 0} ELSE {},
                 clWrite |-> IF m = n /\ k # 2 THEN {m - 1} ELSE {},
                 pUse |-> {k},
                 clUse |-> IF m = 0 THEN {} ELSE {m - 1},
                 g |-> coeffs.g[n + 1][m + 1],
                 h |-> IF m = 0 THEN None ELSE coeffs.h[n + 1][m + 1],
                 y |-> YTerm(m, stSign),
                 divByZero |-> YTerm(m, stSign) = "div" /\ stSign = 0]
    IN [k |-> k + 1, n |-> n, m |-> m + 1, i |-> i, j |-> j,
        nodes |-> Append(a.nodes, node)]

\* for k in range(1, kmx)
RECURSIVE SynthesisLoop(_, _, _, _)
SynthesisLoop(coeffs, stSign, kmx, a) ==
    IF a.k >= kmx THEN a
    ELSE SynthesisLoop(coeffs, stSign, kmx,
                       SynthesisStep(coeffs, stSign, a))

\* The whole function.  alt is the altitude in km as a fraction
\* <<numerator, denominator>>.  When r is zero the division at line 167
\* raises ZeroDivisionError before the loop and nothing is returned: the
\* outcome says so and there are no nodes.  Otherwise the result stands
\* for the returned (x, y, z): the arguments and the nodes that determine
\* it (each node carries the coefficients it multiplies).
Synthesis(coeffs, itype, alt, lat, elong) ==
    LET nmx == Len(coeffs.g) - 1
        kmx == ((nmx + 1) * (nmx + 2)) \div 2
        stSign == StSign(itype, lat)
        raises == RSign(itype, alt) = 0
        a == SynthesisLoop(coeffs, stSign, kmx,
                           [k |-> 1, n |-> 0, m |-> 1, i |-> 0, j |-> 0,
                            nodes |-> <<>>])
    IN [outcome |-> IF raises THEN "ZeroDivisionError" ELSE "ok",
        itype |-> itype, alt |-> alt, lat |-> lat, elong |-> elong,
        nmx |-> nmx, kmx |-> kmx, stSign |-> stSign,
        nodes |-> IF raises THEN <<>> ELSE a.nodes]

\* ------------------------------------------------------------------------
\* The evaluators
\* ------------------------------------------------------------------------
\* alt / 1000.0
AltKm(alt) == <<alt, MetersPerKm>>

Coeffs(c) == [g |-> c.g, h |-> c.h]

\* IGRFModel.evaluate through igrf13syn: resolve, then synthesise.  reads
\* is the number of table reads made; the vector is <<>> when the call
\* raises.
IGRFModel_evaluate(kind, lat, lon, alt, date) ==
    LET c == GetCoeffsForYear(kind, ParseDatetimeOrFractionalYear(date))
    IN [outcome |-> c.outcome,
        reads |-> Len(ReadsOf(c.ops)),
        vector |-> IF c.outcome = "ok"
                   THEN <<Synthesis(Coeffs(c), GEODETIC, AltKm(alt),
                                    lat, lon)>>
                   ELSE <<>>]

\* Variant: the altitude handed to the synthesis in metres.
DateBound_evaluate_RawAlt(kind, b, lat, lon, alt) ==
    LET miss == b.coeffs = <<>>
        c == GetCoeffsForYear(kind, ParseDatetimeOrFractionalYear(b.date))
        stored == IF miss
                  THEN IF c.outcome = "ok" THEN <<Coeffs(c)>> ELSE <<>>
                  ELSE b.coeffs
        outcome == IF miss THEN c.outcome ELSE "ok"
    IN [outcome |-> outcome,
        resolved |-> miss,
        reads |-> IF miss THEN Len(ReadsOf(c.ops)) ELSE 0,
        coeffs |-> stored,
        vector |-> IF outcome = "ok"
                   THEN <<Synthesis(stored[1], GEODETIC, <<alt, 1>>,
                                    lat, lon)>>
                   ELSE <<>>]

\* Variant: the coefficients resolved again on every call.
DateBound_evaluate_NoCache(kind, b, lat, lon, alt) ==
    LET c == GetCoeffsForYear(kind, ParseDatetimeOrFractionalYear(b.date))
        stored == IF c.outcome = "ok" THEN <<Coeffs(c)>> ELSE <<>>
    IN [outcome |-> c.outcome,
        resolved |-> TRUE,
        reads |-> Len(ReadsOf(c.ops)),
        coeffs |-> stored,
        vector |-> IF c.outcome = "ok"
                   THEN <<Synthesis(stored[1], GEODETIC, AltKm(alt),
                                    lat, lon)>>
                   ELSE <<>>]

\* DateBoundIGRFModel.evaluate on the object b; b.coeffs is <<>> for None.
\* resolved tells whether this call invoked the resolver.
DateBound_evaluate(kind, b, lat, lon, alt) ==
    LET miss == b.coeffs = <<>>
        c == GetCoeffsForYear(kind, ParseDatetimeOrFractionalYear(b.date))
        stored == IF miss
                  THEN IF c.outcome = "ok" THEN <<Coeffs(c)>> ELSE <<>>
                  ELSE b.coeffs
        outcome == IF miss THEN c.outcome ELSE "ok"
    IN [outcome |-> outcome,
        resolved |-> miss,
        reads |-> IF miss THEN Len(ReadsOf(c.ops)) ELSE 0,
        coeffs |-> stored,
        vector |-> IF outcome = "ok"
                   THEN <<Synthesis(stored[1], GEODETIC, AltKm(alt),
                                    lat, lon)>>
                   ELSE <<>>]

\* ------------------------------------------------------------------------
\* State
\* ------------------------------------------------------------------------
VARIABLES
    tableKind,  \* which table contents the IGRFModel instance holds
    bound,      \* the DateBoundIGRFModel object, once constructed
    last,       \* the most recent evaluate call and what it did
    rDate,      \* resolver run: the date argument
    rOut,       \* resolver run: <<>> before the call, <<result>> after
    sIn,        \* synthesis run: the arguments
    sOut,       \* synthesis run: <<>> before the call, <<result>> after
    sources,    \* the versions for which the data package holds a file
    cache,      \* IGRFModel._cache: version -> instance
    made,       \* the number of IGRFModel instances constructed so far
    lastGet,    \* the most recent IGRFModel.get call and what it did
    firstGet,   \* version -> the instance its first successful get returned
    threads,    \* the threads inside IGRFModel.get: position and locals
    cIn,        \* conversion run: the argument
    cOut        \* conversion run: <<>> before the call, <<result>> after

cacheVars == <<sources, cache, made, lastGet, firstGet, threads>>
convVars == <<cIn, cOut>>

vars == <<tableKind, bound, last, rDate, rOut, sIn, sOut, cacheVars,
          convVars>>

\* The empty dict.
EmptyCache == [v \in {} |-> 0]

NoGet == [seq |-> 0, version |-> 0, outcome |-> "none", instance |-> 0]
NoConvIn == [type |-> "float", num |-> 0, den |-> 1]

\* No get call made and no thread started.
CacheIdle ==
    /\ sources = {}
    /\ cache = EmptyCache
    /\ made = 0
    /\ lastGet = NoGet
    /\ firstGet = EmptyCache
    /\ threads = <<>>

\* No conversion run.
ConvIdle ==
    /\ cIn = NoConvIn
    /\ cOut = <<>>

\* Inputs
LifeDates ==
    {Y(min_year) - 1, Y(min_year), Y(DegreeSwitchYear) + 1,
     Y(max_year), Y(max_year) + 1}
Lats == {-90, 45}
Lons == {19}
Alts == {0, 2000}
ResolverDates == (Y(min_year) - DateScale)..(Y(max_year) + DateScale)
SynthLats == {-90, -45, 0, 45, 90}
SynthLons == {0, 19, 180}
SynthAlts == {<<0, 1>>, <<2, 1>>}
SynthDates == {Y(min_year), Y(DegreeSwitchYear) - 1, Y(DegreeSwitchYear),
               Y(max_year)}

\* IGRFModel.evaluate on every input of the life cycle, computed once.
EvaluateTable ==
    [kind \in TableKinds, lat \in Lats, lon \in Lons, alt \in Alts,
     date \in LifeDates |-> IGRFModel_evaluate(kind, lat, lon, alt, date)]

NoBound == [exists |-> FALSE, date |-> 0, coeffs |-> <<>>,
            resolves |-> 0, calls |-> 0]
NoCall == [op |-> "none", date |-> 0, lat |-> 0, lon |-> 0, alt |-> 0,
           outcome |-> "none", resolved |-> FALSE, reads |-> 0,
           vector |-> <<>>]
NoSynthIn == [coeffs |-> [g |-> <<>>, h |-> <<>>], itype |-> GEODETIC,
              alt |-> <<0, 1>>, lat |-> 0, elong |-> 0]

\* ------------------------------------------------------------------------
\* The object life cycle: IGRFModel.at, DateBoundIGRFModel.evaluate and
\* IGRFModel.evaluate
\* ------------------------------------------------------------------------
Init ==
    /\ tableKind \in TableKinds
    /\ bound = NoBound
    /\ last = NoCall
    /\ rDate = 0
    /\ rOut = <<>>
    /\ sIn = NoSynthIn
    /\ sOut = <<>>
    /\ CacheIdle
    /\ ConvIdle

\* IGRFModel.at(date): DateBoundIGRFModel.__init__.
At(date) ==
    /\ ~bound.exists
    /\ bound' = [exists |-> TRUE,
                 date |-> ParseDatetimeOrFractionalYear(date),
                 coeffs |-> <<>>, resolves |-> 0, calls |-> 0]
    /\ UNCHANGED <<tableKind, last, rDate, rOut, sIn, sOut,
                   cacheVars, convVars>>

\* bound.evaluate(lat, lon, alt)
BoundEvaluate(lat, lon, alt) ==
    /\ bound.exists
    /\ bound.calls < MaxCalls
    /\ LET r == DateBound_evaluate(tableKind, bound, lat, lon, alt)
       IN /\ bound' = [bound EXCEPT
                         !.coeffs = r.coeffs,
                         !.resolves = IF r.resolved THEN @ + 1 ELSE @,
                         !.calls = @ + 1]
          /\ last' = [op |-> "bound", date |-> bound.date, lat |-> lat,
                      lon |-> lon, alt |-> alt, outcome |-> r.outcome,
                      resolved |-> r.resolved, reads |-> r.reads,
                      vector |-> r.vector]
    /\ UNCHANGED <<tableKind, rDate, rOut, sIn, sOut,
                   cacheVars, convVars>>

\* model.evaluate(lat, lon, alt, date=date)
Evaluate(lat, lon, alt, date) ==
    /\ LET r == EvaluateTable[tableKind, lat, lon, alt, date]
       IN last' = [op |-> "oneshot", date |-> date, lat |-> lat,
                   lon |-> lon, alt |-> alt, outcome |-> r.outcome,
                   resolved |-> TRUE, reads |-> r.reads,
                   vector |-> r.vector]
    /\ UNCHANGED <<tableKind, bound, rDate, rOut, sIn, sOut,
                   cacheVars, convVars>>

Next ==
    \/ \E date \in LifeDates : At(date)
    \/ \E lat \in Lats, lon \in Lons, alt \in Alts :
          BoundEvaluate(lat, lon, alt)
    \/ \E lat \in Lats, lon \in Lons, alt \in Alts, date \in LifeDates :
          Evaluate(lat, lon, alt, date)

Spec == Init /\ [][Next]_vars

\* ------------------------------------------------------------------------
\* The resolver on its own: one call of _get_coeffs_for_year per date
\* ------------------------------------------------------------------------
InitResolver ==
    /\ tableKind \in TableKinds
    /\ rDate \in ResolverDates
    /\ rOut = <<>>
    /\ bound = NoBound
    /\ last = NoCall
    /\ sIn = NoSynthIn
    /\ sOut = <<>>
    /\ CacheIdle
    /\ ConvIdle

Resolve ==
    /\ rOut = <<>>
    /\ rOut' = <<GetCoeffsForYear(tableKind, rDate)>>
    /\ UNCHANGED <<tableKind, bound, last, rDate, sIn, sOut,
                   cacheVars, convVars>>

NextResolver == Resolve

SpecResolver == InitResolver /\ [][NextResolver]_vars

\* ------------------------------------------------------------------------
\* The synthesis on its own: one call of
\* igrf13syn_with_precalculated_coeffs per argument tuple
\* ------------------------------------------------------------------------
InitSynthesis ==
    /\ tableKind \in TableKinds
    /\ \E date \in SynthDates, itype \in {GEODETIC, GEOCENTRIC},
          alt \in SynthAlts, lat \in SynthLats, elong \in SynthLons :
          sIn = [coeffs |-> Coeffs(GetCoeffsForYear(tableKind, date)),
                 itype |-> itype, alt |-> alt, lat |-> lat,
                 elong |-> elong]
    /\ sOut = <<>>
    /\ bound = NoBound
    /\ last = NoCall
    /\ rDate = 0
    /\ rOut = <<>>
    /\ CacheIdle
    /\ ConvIdle

Synthesize ==
    /\ sOut = <<>>
    /\ sOut' = <<Synthesis(sIn.coeffs, sIn.itype, sIn.alt, sIn.lat,
                           sIn.elong)>>
    /\ UNCHANGED <<tableKind, bound, last, rDate, rOut, sIn,
                   cacheVars, convVars>>

NextSynthesis == Synthesize

SpecSynthesis == InitSynthesis /\ [][NextSynthesis]_vars

\* ------------------------------------------------------------------------
\* IGRFModel.get and the class-level cache
\* ------------------------------------------------------------------------
\* An IGRFModel instance is identified by the order of its construction
\* (1, 2, ...); 0 stands for None.
Versions == {12, 13, 777777}

\* cls._cache.get(version)
CacheGet(c, version) == IF version \in DOMAIN c THEN c[version] ELSE 0

\* cls._cache[version] = instance
CachePut(c, version, instance) ==
    [v \in DOMAIN c \cup {version} |->
        IF v = version THEN instance ELSE c[v]]

\* Variant: the loaded instance is not stored in the cache.
IGRFModel_get_NoStore(c, n, src, version) ==
    LET instance == CacheGet(c, version)
    IN IF instance # 0
       THEN [outcome |-> "ok", instance |-> instance, cache |-> c,
             made |-> n]
       ELSE IF version \notin src
       THEN [outcome |-> "ValueError", instance |-> 0, cache |-> c,
             made |-> n]
       ELSE [outcome |-> "ok", instance |-> n + 1, cache |-> c,
             made |-> n + 1]

\* IGRFModel.get(version) run without interruption, on the cache c with n
\* instances constructed so far; src is the set of versions whose data
\* file open_text finds.
IGRFModel_get(c, n, src, version) ==
    LET instance == CacheGet(c, version)
    IN IF instance # 0
       THEN [outcome |-> "ok", instance |-> instance, cache |-> c,
             made |-> n]
       ELSE IF version \notin src
       THEN [outcome |-> "ValueError", instance |-> 0, cache |-> c,
             made |-> n]
       ELSE [outcome |-> "ok", instance |-> n + 1,
             cache |-> CachePut(c, version, n + 1), made |-> n + 1]

InitCache ==
    /\ sources \in SUBSET Versions
    /\ cache = EmptyCache
    /\ made = 0
    /\ lastGet = NoGet
    /\ firstGet = EmptyCache
    /\ threads = <<>>
    /\ tableKind = 1
    /\ bound = NoBound
    /\ last = NoCall
    /\ rDate = 0
    /\ rOut = <<>>
    /\ sIn = NoSynthIn
    /\ sOut = <<>>
    /\ ConvIdle

\* IGRFModel.get(version), single-threaded.
Get(version) ==
    /\ lastGet.seq < MaxGets
    /\ LET r == IGRFModel_get(cache, made, sources, version)
       IN /\ cache' = r.cache
          /\ made' = r.made
          /\ lastGet' = [seq |-> lastGet.seq + 1, version |-> version,
                         outcome |-> r.outcome, instance |-> r.instance]
          /\ firstGet' = IF r.outcome = "ok"
                            /\ version \notin DOMAIN firstGet
                         THEN CachePut(firstGet, version, r.instance)
                         ELSE firstGet
    /\ UNCHANGED <<tableKind, bound, last, rDate, rOut, sIn, sOut,
                   sources, threads, convVars>>

NextCache == \E version \in Versions : Get(version)

SpecCache == InitCache /\ [][NextCache]_vars

\* ------------------------------------------------------------------------
\* IGRFModel.get called from several threads
\* ------------------------------------------------------------------------
\* There is no lock in get; the threads are interleaved between its
\* statements.  A thread is [pc, version, instance, result]: pc is the
\* statement it executes next, instance its local variable (0 for None),
\* result the instance returned (0 before the return and after a raise).
Threads == 1..NumThreads

ThreadAt(version) ==
    [pc |-> "lookup", version |-> version, instance |-> 0, result |-> 0]

InitThreads ==
    /\ sources \in SUBSET Versions
    /\ cache = EmptyCache
    /\ made = 0
    /\ lastGet = NoGet
    /\ firstGet = EmptyCache
    /\ threads \in {[t \in Threads |-> ThreadAt(f[t])] :
                      f \in [Threads -> Versions]}
    /\ tableKind = 1
    /\ bound = NoBound
    /\ last = NoCall
    /\ rDate = 0
    /\ rOut = <<>>
    /\ sIn = NoSynthIn
    /\ sOut = <<>>
    /\ ConvIdle

\* What a thread step leaves alone besides the cache, the instance count
\* and the threads.
threadFrame ==
    <<tableKind, bound, last, rDate, rOut, sIn, sOut, sources, lastGet,
      firstGet, convVars>>

\* instance = cls._cache.get(version)
Lookup(t) ==
    /\ threads[t].pc = "lookup"
    /\ threads' = [threads EXCEPT
                     ![t].instance = CacheGet(cache, threads[t].version),
                     ![t].pc = "test"]
    /\ UNCHANGED <<cache, made, threadFrame>>

\* if instance is None:
TestNone(t) ==
    /\ threads[t].pc = "test"
    /\ threads' = [threads EXCEPT
                     ![t].pc = IF threads[t].instance = 0
                               THEN "open" ELSE "return"]
    /\ UNCHANGED <<cache, made, threadFrame>>

\* try: fp = open_text(...) except Exception: raise ValueError(...)
OpenText(t) ==
    /\ threads[t].pc = "open"
    /\ threads' = [threads EXCEPT
                     ![t].pc = IF threads[t].version \in sources
                               THEN "load" ELSE "raised"]
    /\ UNCHANGED <<cache, made, threadFrame>>

\* with fp: instance = cls.from_io(fp)
FromIO(t) ==
    /\ threads[t].pc = "load"
    /\ made' = made + 1
    /\ threads' = [threads EXCEPT ![t].instance = made + 1,
                                  ![t].pc = "store"]
    /\ UNCHANGED <<cache, threadFrame>>

\* cls._cache[version] = instance
Store(t) ==
    /\ threads[t].pc = "store"
    /\ cache' = CachePut(cache, threads[t].version, threads[t].instance)
    /\ threads' = [threads EXCEPT ![t].pc = "return"]
    /\ UNCHANGED <<made, threadFrame>>

\* return instance
Return(t) ==
    /\ threads[t].pc = "return"
    /\ threads' = [threads EXCEPT ![t].result = threads[t].instance,
                                  ![t].pc = "done"]
    /\ UNCHANGED <<cache, made, threadFrame>>

NextThreads ==
    \E t \in Threads :
       \/ Lookup(t)
       \/ TestNone(t)
       \/ OpenText(t)
       \/ FromIO(t)
       \/ Store(t)
       \/ Return(t)

SpecThreads == InitThreads /\ [][NextThreads]_vars

\* ------------------------------------------------------------------------
\* utils.datetime_to_fractional_year and parse_datetime_or_fractional_year
\* ------------------------------------------------------------------------
\* An argument is tagged with its Python type: a datetime is
\* [type |-> "datetime", year, month, day, hour], a number is the fraction
\* [type |-> "float", num, den].  The result of the conversion is the
\* fraction year + days/year_length, not reduced.

\* The proleptic Gregorian calendar of datetime.date.
IsLeap(year) == year % 4 = 0 /\ (year % 100 # 0 \/ year % 400 = 0)

DaysBeforeYear(year) ==
    LET p == year - 1
    IN p * 365 + p \div 4 - p \div 100 + p \div 400

DaysInMonth(year, month) ==
    IF month = 2 THEN (IF IsLeap(year) THEN 29 ELSE 28)
    ELSE IF month \in {4, 6, 9, 11} THEN 30 ELSE 31

RECURSIVE DaysBeforeMonth(_, _)
DaysBeforeMonth(year, month) ==
    IF month = 1 THEN 0
    ELSE DaysBeforeMonth(year, month - 1) + DaysInMonth(year, month - 1)

\* date(year, month, day).toordinal(); the time of day is not part of it.
ToOrdinal(year, month, day) ==
    DaysBeforeYear(year) + DaysBeforeMonth(year, month) + day

\* Variant: every year taken to have 365 days.
DatetimeToFractionalYear_Fixed365(input) ==
    LET start == ToOrdinal(input.year, 1, 1)
        year_length == 365
    IN [type |-> "float",
        num |-> input.year * year_length
                + (ToOrdinal(input.year, input.month, input.day) - start),
        den |-> year_length]

\* datetime_to_fractional_year(input)
DatetimeToFractionalYear(input) ==
    LET start == ToOrdinal(input.year, 1, 1)
        year_length == ToOrdinal(input.year + 1, 1, 1) - start
    IN [type |-> "float",
        num |-> input.year * year_length
                + (ToOrdinal(input.year, input.month, input.day) - start),
        den |-> year_length]

\* parse_datetime_or_fractional_year(input) on a tagged argument that is
\* not None: a datetime is converted, a number is returned as it is.
ParseDateInput(input) ==
    IF input.type = "datetime" THEN DatetimeToFractionalYear(input)
    ELSE input

\* Inputs
ConvYears == {1899, 1900, 2000, 2007, 2017, 2020}
ConvHours == {0, 13}
ConvDatetimes ==
    {[type |-> "datetime", year |-> y, month |-> m, day |-> d, hour |-> h] :
        y \in ConvYears, h \in ConvHours,
        m \in 1..12, d \in 1..31}
ConvNumbers ==
    {[type |-> "float", num |-> n, den |-> 2] : n \in {3799, 3949, 4060}}

InitConvert ==
    /\ cIn \in {x \in ConvDatetimes : x.day <= DaysInMonth(x.year, x.month)}
              \cup ConvNumbers
    /\ cOut = <<>>
    /\ tableKind = 1
    /\ bound = NoBound
    /\ last = NoCall
    /\ rDate = 0
    /\ rOut = <<>>
    /\ sIn = NoSynthIn
    /\ sOut = <<>>
    /\ CacheIdle

Convert ==
    /\ cOut = <<>>
    /\ cOut' = <<ParseDateInput(cIn)>>
    /\ UNCHANGED <<tableKind, bound, last, rDate, rOut, sIn, sOut,
                   cacheVars, cIn>>

NextConvert == Convert

SpecConvert == InitConvert /\ [][NextConvert]_vars

\* ========================================================================
\* Properties
\* ========================================================================
InRangeYear(date) == date >= min_year * DateScale /\ date <= max_year * DateScale

\* C1: a call that resolves coefficients for a date before min_year or
\* after max_year raises the out-of-range error, having read no table entry
\* and produced no coefficients or vector; a date-bound model bound to such
\* a date raises on every call and never stores coefficients; the dates
\* min_year and max_year themselves do not raise.
C1_OutOfRangeRaises ==
    /\ (last.op # "none" /\ ~InRangeYear(last.date))
          => /\ last.outcome = "ValueError"
             /\ last.reads = 0
             /\ last.vector = <<>>
    /\ (bound.exists /\ ~InRangeYear(bound.date))
          => /\ bound.coeffs = <<>>
             /\ bound.resolves = bound.calls
    /\ (last.op # "none"
        /\ last.date \in {min_year * DateScale, max_year * DateScale})
          => /\ last.outcome = "ok"
             /\ last.vector # <<>>

\* A date-bound model bound to an out-of-range date has raised on a
\* repeated call.
C1_Witness ==
    /\ last.op = "bound"
    /\ ~InRangeYear(last.date)
    /\ bound.calls >= 2
    /\ last.outcome = "ValueError"

\* C2: for an in-range date, evaluate on the date-bound model returns the
\* vector that the one-shot evaluate returns for the same date and
\* position, on the first call and on every later call.
C2_BoundEqualsOneShot ==
    (last.op = "bound" /\ InRangeYear(last.date))
       => /\ last.outcome = "ok"
          /\ last.vector =
               EvaluateTable[tableKind, last.lat, last.lon, last.alt,
                             last.date].vector
          /\ last.vector[1].itype = GEODETIC
          /\ last.vector[1].alt[1] * MetersPerKm
               = last.alt * last.vector[1].alt[2]

\* A later call of the date-bound model, served from the stored
\* coefficients, at a non-zero altitude.
C2_Witness ==
    /\ last.op = "bound"
    /\ InRangeYear(last.date)
    /\ bound.calls >= 2
    /\ ~last.resolved
    /\ last.alt # 0
    /\ last.outcome = "ok"

\* The coefficients that the last synthesis multiplied are those of c.
UsesCoeffs(vector, c) ==
    \A x \in 1..Len(vector.nodes) :
       LET node == vector.nodes[x]
       IN /\ node.g = c.g[node.n + 1][node.m + 1]
          /\ node.m # 0 => node.h = c.h[node.n + 1][node.m + 1]

C3_State ==
    /\ (bound.exists /\ bound.calls = 0)
          => bound.resolves = 0 /\ bound.coeffs = <<>>
    /\ (bound.exists /\ InRangeYear(bound.date) /\ bound.calls >= 1)
          => bound.resolves = 1 /\ bound.coeffs # <<>>
    /\ (last.op = "bound" /\ InRangeYear(last.date))
          => /\ last.resolved = (bound.calls = 1)
             /\ UsesCoeffs(last.vector[1], bound.coeffs[1])

C3_Step ==
    bound.exists
       => /\ bound'.exists
          /\ bound'.date = bound.date
          /\ bound.coeffs # <<>> => bound'.coeffs = bound.coeffs
          /\ bound'.resolves >= bound.resolves

\* C3: constructing a date-bound model does not invoke the resolver; with
\* an in-range date the resolver is invoked exactly once, in the first
\* evaluate, the stored pair is written once and never changes, every later
\* evaluate uses it, and the bound date never changes.
C3_ResolveOnce == [](C3_State) /\ [][C3_Step]_vars

\* The date-bound model has served a later call from the stored pair.
C3_Witness ==
    /\ bound.exists
    /\ InRangeYear(bound.date)
    /\ bound.calls >= 2
    /\ bound.resolves = 1
    /\ last.op = "bound"
    /\ ~last.resolved

\* ------------------------------------------------------------------------
\* The resolver
\* ------------------------------------------------------------------------
Resolved == rOut # <<>> /\ InRangeYear(rDate)

ThresholdDate == (max_year - 10) * DateScale
SwitchDate == 1995 * DateScale
MinDate == min_year * DateScale

\* C4: g and h each have nmx+1 rows (nmx = 10 before 1995.0, else 13), row
\* n holds exactly the entries m = 0..n, h[n][0] is None, and every g[n][m]
\* with n >= 1 and every h[n][m] with m >= 1 is a number.
C4_TriangularShape ==
    Resolved =>
       LET c == rOut[1]
           nmx == IF rDate < SwitchDate THEN 10 ELSE 13
       IN /\ c.outcome = "ok"
          /\ Len(c.g) = nmx + 1
          /\ Len(c.h) = nmx + 1
          /\ \A n \in 0..nmx :
                /\ Len(c.g[n + 1]) = n + 1
                /\ Len(c.h[n + 1]) = n + 1
                /\ c.h[n + 1][1].isNone
                /\ \A m \in 0..n :
                      /\ n >= 1 => ~c.g[n + 1][m + 1].isNone
                      /\ m >= 1 => ~c.h[n + 1][m + 1].isNone

\* C5: in the interpolation branch t is the fractional part of
\* (date - min_year)/5, 0 <= t < 1 and tc = 1 - t; in the extrapolation
\* branch tc = 1 and t = date - (max_year - 10), 0 <= t <= 10; every
\* resolved coefficient is tc*current + t*next of its two table operands.
\* (t and tc are numerators over WDen.)
C5_Weights ==
    Resolved =>
       LET c == rOut[1]
       IN /\ c.outcome = "ok"
          /\ rDate < ThresholdDate
                => /\ 0 <= c.t /\ c.t < WDen
                   /\ (rDate - MinDate - c.t) % WDen = 0
                   /\ c.tc = WDen - c.t
                   /\ c.tc + c.t = WDen
          /\ rDate >= ThresholdDate
                => /\ c.tc = WDen
                   /\ c.t = SnapshotStep * (rDate - ThresholdDate)
                   /\ 0 <= c.t /\ c.t <= 10 * WDen
          /\ \A x \in 1..Len(c.ops) :
                LET op == c.ops[x]
                IN /\ ~EntryOf(c, op).isNone
                   /\ EntryOf(c, op).val =
                        c.tc * TableGet(tableKind, op.cur)
                        + c.t * TableGet(tableKind, op.nxt)

\* An interpolated date strictly inside a five-year interval.
C5_Witness ==
    /\ Resolved
    /\ rDate < ThresholdDate
    /\ rOut[1].t > 0
    /\ rOut[1].tc > rOut[1].t

\* C6: the block offset is 120*floor((date-1900)/5) before 1995,
\* 19*120 + 195*floor((date-1995)/5) from 1995 up to 2020, and 3255 from
\* 2020 to 2030: the table position where the snapshot with the latest
\* epoch <= date (at most 2020) begins; the order-0 term of degree 1 is
\* read there.
C6_BlockOffset ==
    Resolved =>
       LET c == rOut[1]
           capped == IF rDate < 2020 * DateScale THEN rDate
                     ELSE 2020 * DateScale
       IN /\ rDate < 1995 * DateScale
                => c.ll = 120 * ((rDate - 1900 * DateScale) \div WDen)
          /\ (rDate >= 1995 * DateScale /\ rDate < 2020 * DateScale)
                => c.ll = 19 * 120
                          + 195 * ((rDate - 1995 * DateScale) \div WDen)
          /\ rDate >= 2020 * DateScale => c.ll = 3255
          /\ c.ll = SnapshotStart((capped - 1900 * DateScale) \div WDen)
          /\ c.ops[2].cur = c.ll

\* A date in the last five years of the range.
C6_Witness ==
    /\ Resolved
    /\ rDate >= 2025 * DateScale
    /\ rOut[1].ll = 3255

\* C7: the first table index read is the block offset; from there one
\* value is consumed per order-0 term and two consecutive values per
\* (g[n][m], h[n][m]) with m >= 1, n ascending from 0 and m ascending, and
\* the next operand is nc positions after the current operand.
C7_SequentialWalk ==
    Resolved =>
       LET c == rOut[1]
       IN /\ c.ops[1].cur = c.ll
          /\ c.ops[1].n = 0 /\ c.ops[1].m = 0
          /\ \A x \in 1..Len(c.ops) :
                /\ c.ops[x].nxt = c.ops[x].cur + c.nc
                /\ x > 1 => c.ops[x].cur = c.ops[x - 1].cur + 1
                /\ c.ops[x].arr = "h" => c.ops[x].m >= 1
          /\ Len(c.ops) = c.nc + 1

\* C8: every table index the resolver reads is non-negative and lies
\* before the sentinel.
C8_ReadsInsideTable ==
    Resolved =>
       LET reads == ReadsOf(rOut[1].ops)
       IN \A x \in 1..Len(reads) :
             reads[x] >= 0 /\ reads[x] < TableLen - 1

\* The snapshot epoch that ends the five-year interval containing date.
EpochAfter(date) == MinDate + WDen * ((date - MinDate) \div WDen + 1)

\* C9: at a snapshot epoch E with min_year < E <= max_year - 10 every
\* resolved coefficient is exactly the tabulated value of snapshot E, and
\* for a date in the interval ending at E the next operand of every
\* coefficient is that same table entry (also across the change of degree
\* at 1995 and the change to extrapolation at max_year - 10).
C9_Continuity ==
    Resolved =>
       LET c == rOut[1]
           snap == (rDate - MinDate) \div WDen
       IN /\ ((rDate - MinDate) % WDen = 0 /\ rDate > MinDate
              /\ rDate <= ThresholdDate)
                => \A x \in 1..Len(c.ops) :
                      LET op == c.ops[x]
                      IN /\ EntryOf(c, op).val
                              = WDen * TableGet(tableKind, op.cur)
                         /\ op.n >= 1
                               => /\ op.cur >= SnapshotStart(snap)
                                  /\ op.cur < SnapshotStart(snap + 1)
          /\ rDate < ThresholdDate
                => LET e == GetCoeffsForYear(tableKind, EpochAfter(rDate))
                   IN \A x \in 1..Len(c.ops) :
                         /\ e.ops[x].arr = c.ops[x].arr
                         /\ e.ops[x].n = c.ops[x].n
                         /\ e.ops[x].m = c.ops[x].m
                         /\ e.ops[x].cur = c.ops[x].nxt
                         /\ EntryOf(e, e.ops[x]).val
                              = WDen * TableGet(tableKind, c.ops[x].nxt)

\* The last date before 1995.0, where the degree changes at the end of
\* the interval.
C9_Witness ==
    /\ Resolved
    /\ rDate = SwitchDate - 1
    /\ rOut[1].nmx = 10
    /\ rOut[1].t > 0

\* ------------------------------------------------------------------------
\* The synthesis
\* ------------------------------------------------------------------------
\* C10: no node divides by a zero sin(theta); a node with m >= 1 adds the
\* pole formula to y exactly when sin(theta) is zero and the quotient
\* otherwise; at latitude 90 and at latitude -90 every such node adds the
\* pole formula.
C10_PoleFormula ==
    sOut # <<>> =>
       LET r == sOut[1]
       IN \A x \in 1..Len(r.nodes) :
             LET node == r.nodes[x]
             IN /\ ~node.divByZero
                /\ node.m >= 1
                      => /\ (node.y = "pole") = (r.stSign = 0)
                         /\ (node.y = "div") = (r.stSign # 0)
                         /\ sIn.lat \in {90, -90} => node.y = "pole"

\* ------------------------------------------------------------------------
\* The version cache
\* ------------------------------------------------------------------------
C11_State ==
    /\ \A v \in DOMAIN cache :
          /\ v \in sources
          /\ cache[v] # 0
          /\ v \in DOMAIN firstGet
          /\ cache[v] = firstGet[v]
    /\ lastGet.outcome = "ok"
          => /\ lastGet.version \in DOMAIN firstGet
             /\ lastGet.instance = firstGet[lastGet.version]
             /\ lastGet.instance # 0
    /\ (lastGet.seq > 0 /\ lastGet.version \notin sources)
          => /\ lastGet.outcome = "ValueError"
             /\ lastGet.version \notin DOMAIN cache

C11_Step ==
    /\ \A v \in DOMAIN cache :
          v \in DOMAIN cache' /\ cache'[v] = cache[v]
    /\ (lastGet'.seq # lastGet.seq /\ lastGet'.outcome = "ValueError")
          => cache' = cache

\* C11: single-threaded, the cache is write-once per version and holds
\* only loaded models: every successful get(v) returns the instance that
\* the first successful get(v) constructed, and a get for a version without
\* a data source raises the unsupported-version error and leaves the cache
\* as it was.
C11_CacheWriteOnce == [](C11_State) /\ [][C11_Step]_vars

\* A later get has returned the instance that an earlier get constructed.
C11_Witness ==
    /\ lastGet.seq >= 2
    /\ lastGet.outcome = "ok"
    /\ made = 1
    /\ lastGet.instance = 1

\* ------------------------------------------------------------------------
\* The date conversion
\* ------------------------------------------------------------------------
\* The calendar as the claim counts it: the days of each month of a year,
\* the number of days of the year, and the days elapsed since 1 January.
MonthLengths(year) ==
    LET leap == (year % 4 = 0 /\ year % 100 # 0) \/ year % 400 = 0
    IN <<31, IF leap THEN 29 ELSE 28, 31, 30, 31, 30, 31, 31, 30, 31, 30,
         31>>

YearDays(year) ==
    IF (year % 4 = 0 /\ year % 100 # 0) \/ year % 400 = 0 THEN 366 ELSE 365

DaysSinceJan1(dt) ==
    Cardinality({md \in (1..12) \X (1..31) :
                   /\ md[2] <= MonthLengths(dt.year)[md[1]]
                   /\ \/ md[1] < dt.month
                      \/ md[1] = dt.month /\ md[2] < dt.day})

NextDay(dt) ==
    IF dt.day < MonthLengths(dt.year)[dt.month]
    THEN [dt EXCEPT !.day = @ + 1]
    ELSE IF dt.month < 12
    THEN [dt EXCEPT !.month = @ + 1, !.day = 1]
    ELSE [dt EXCEPT !.year = @ + 1, !.month = 1, !.day = 1]

\* C12: a datetime in year Y that is d days after 1 January maps to
\* Y + d/L with L the number of days of Y (366 in leap years, else 365);
\* 1 January maps to exactly Y, the result lies in [Y, Y+1), does not
\* decrease from one day to the next and does not depend on the time of
\* day; a number is returned unchanged.
C12_FractionalYear ==
    cOut # <<>> =>
       LET r == cOut[1]
       IN /\ cIn.type = "float" => r = cIn
          /\ cIn.type = "datetime"
                => LET yr == cIn.year
                       d == DaysSinceJan1(cIn)
                       L == YearDays(yr)
                       nxt == DatetimeToFractionalYear(NextDay(cIn))
                   IN /\ r.den > 0
                      /\ r.num * L = (yr * L + d) * r.den
                      /\ (cIn.month = 1 /\ cIn.day = 1)
                            => r.num = yr * r.den
                      /\ r.num >= yr * r.den
                      /\ r.num < (yr + 1) * r.den
                      /\ r.num * nxt.den <= nxt.num * r.den
                      /\ \A h \in ConvHours :
                            ParseDateInput([cIn EXCEPT !.hour = h]) = r

\* The last day of a leap year, at a time other than midnight, converted.
C12_Witness ==
    /\ cOut # <<>>
    /\ cIn.type = "datetime"
    /\ cIn.year = 2020 /\ cIn.month = 12 /\ cIn.day = 31
    /\ cIn.hour # 0
    /\ cOut[1].den = 366

\* ------------------------------------------------------------------------
\* The indices of the synthesis loop
\* ------------------------------------------------------------------------
\* The flat slot of the pair (n, m).
Slot(n, m) == (n * (n + 1)) \div 2 + m

\* The slots of p and q, and of cl and sl, assigned before iteration x.
AssignedPQ(nodes, x) ==
    SeededPQ \cup UNION {nodes[w].pWrite : w \in 1..(x - 1)}

AssignedCL(nodes, x) ==
    SeededCL \cup UNION {nodes[w].clWrite : w \in 1..(x - 1)}

\* C13: for nmx in {10, 13} iteration k of the loop processes the pair
\* (n, m) with 1 <= n <= nmx, 0 <= m <= n and k = n(n+1)/2 + m, each pair
\* once, in increasing n then increasing m; the off-diagonal recurrence
\* reads the slots of (n-1, m) and (n-2, m), the latter with weight zero
\* when m = n-1, the diagonal one reads the slot of (n-1, n-1) and
\* cl/sl[m-2], cl/sl[0]; every slot read was assigned in an earlier
\* iteration or before the loop, and every index is inside its array.
C13_LoopIndices ==
    (sOut # <<>> /\ sOut[1].outcome = "ok") =>
       LET r == sOut[1]
           nodes == r.nodes
       IN /\ r.nmx \in {LowDegree, HighDegree}
          /\ Len(nodes) = r.kmx - 1
          /\ \A n \in 1..r.nmx : \A m \in 0..n :
                Cardinality({x \in 1..Len(nodes) :
                               nodes[x].n = n /\ nodes[x].m = m}) = 1
          /\ \A x \in 1..Len(nodes) :
                LET node == nodes[x]
                    n == node.n
                    m == node.m
                IN /\ node.k = x
                   /\ 1 <= n /\ n <= r.nmx
                   /\ 0 <= m /\ m <= n
                   /\ node.k = Slot(n, m)
                   /\ x < Len(nodes)
                         => LET next == nodes[x + 1]
                            IN IF m < n
                               THEN next.n = n /\ next.m = m + 1
                               ELSE next.n = n + 1 /\ next.m = 0
                   /\ m # n
                         => /\ node.rec = "offdiag"
                            /\ node.i = Slot(n - 1, m)
                            /\ node.j = Slot(n - 2, m)
                            /\ node.pRead = {Slot(n - 1, m), Slot(n - 2, m)}
                            /\ node.two >= 0
                            /\ m = n - 1 => node.two = 0
                            /\ node.clRead = {}
                   /\ (m = n /\ node.k # 2)
                         => /\ node.rec = "diag"
                            /\ node.j = Slot(n - 1, n - 1)
                            /\ node.pRead = {Slot(n - 1, n - 1)}
                            /\ node.clRead = {m - 2, 0}
                   /\ node.pRead \subseteq AssignedPQ(nodes, x)
                   /\ node.clRead \subseteq AssignedCL(nodes, x)
                   /\ node.pUse \subseteq AssignedPQ(nodes, x + 1)
                   /\ node.clUse \subseteq AssignedCL(nodes, x + 1)
                   /\ (node.pRead \cup node.pWrite \cup node.pUse)
                         \subseteq 0..(PQLen - 1)
                   /\ (node.clRead \cup node.clWrite \cup node.clUse)
                         \subseteq 0..(CLLen - 1)

\* A degree-13 synthesis: its last iteration is the diagonal pair (13, 13)
\* at slot 104, which assigns cl[12] and sl[12], and an earlier one is an
\* off-diagonal pair with m = n - 1.
C13_Witness ==
    /\ sOut # <<>>
    /\ sOut[1].outcome = "ok"
    /\ sOut[1].nmx = HighDegree
    /\ LET nodes == sOut[1].nodes
           end == nodes[Len(nodes)]
       IN /\ end.k = PQLen - 1
          /\ end.rec = "diag"
          /\ end.clWrite = {CLLen - 1}
          /\ \E x \in 1..Len(nodes) :
                /\ nodes[x].rec = "offdiag"
                /\ nodes[x].m = nodes[x].n - 1
                /\ nodes[x].two = 0

\* ------------------------------------------------------------------------
\* The version cache under concurrent callers
\* ------------------------------------------------------------------------
\* C14: when threads interleaved between the statements of get call it for
\* the same version, not cached at the start, every caller that returns
\* receives the same instance, and once all callers have finished the
\* cache holds that instance.
C14_SameInstance ==
    /\ \A t \in DOMAIN threads : \A u \in DOMAIN threads :
          (/\ threads[t].pc = "done"
           /\ threads[u].pc = "done"
           /\ threads[t].version = threads[u].version)
             => threads[t].result = threads[u].result
    /\ (\A t \in DOMAIN threads : threads[t].pc \in {"done", "raised"})
          => \A t \in DOMAIN threads :
                threads[t].pc = "done"
                   => CacheGet(cache, threads[t].version)
                         = threads[t].result

====
